---- MODULE Spec2Model ----
(***************************************************************************)
(* Model of the Sheets helper of the order-management codelab              *)
(* (sheets.js): the shared column specification COLUMNS, the request       *)
(* builders, and the two asynchronous operations createSpreadsheet and     *)
(* sync together with the Sheets service calls they issue; and of the two  *)
(* spreadsheet routes (routes.js) that call the helper.                    *)
(*                                                                         *)
(* Spec       the helper called directly, with any title and any orders.   *)
(* RouteSpec  the helper called by the two routes.                         *)
(* LookupSpec getColumnForField applied to any field name.                 *)
(***************************************************************************)
EXTENDS Integers, Sequences, FiniteSets

VARIABLES COLUMNS, cs, sy, rc, rs, db, lookup

vars == <<COLUMNS, cs, sy, rc, rs, db, lookup>>

(* The state of the routes and of the lookup, which the helper leaves alone. *)
routeVars == <<rc, rs, db>>

(* Largest number of orders handed to one sync call. *)
MaxOrders == 2

(***************************************************************************)
(* JavaScript values of the order fields: a number, a string or undefined. *)
(* unitPrice is a decimal in the program; the model counts it in cents.    *)
(***************************************************************************)
Undefined == [t |-> "undef", n |-> 0, s |-> ""]

Num(n) == [t |-> "num", n |-> n, s |-> ""]

Str(s) == [t |-> "str", n |-> 0, s |-> s]

Digit(d) ==
    CASE d = 0 -> "0" [] d = 1 -> "1" [] d = 2 -> "2" [] d = 3 -> "3"
      [] d = 4 -> "4" [] d = 5 -> "5" [] d = 6 -> "6" [] d = 7 -> "7"
      [] d = 8 -> "8" [] d = 9 -> "9"

RECURSIVE NumberToString(_)
NumberToString(n) ==
    IF n < 10 THEN Digit(n)
    ELSE NumberToString(n \div 10) \o Digit(n % 10)

(* value.toString(): undefined has no toString, the call throws a TypeError *)
Throws(v) == v.t = "undef"

(* Mutant: the field is passed on as it is, without toString(). *)
ToStringIdentity(v) == v

ToString(v) == IF v.t = "num" THEN Str(NumberToString(v.n)) ELSE v

(***************************************************************************)
(* The column specification.  A column gains the key "index" only when     *)
(* getColumnForField writes it; hasIndex tells whether the key is present. *)
(***************************************************************************)
Column(field, header) ==
    [field |-> field, header |-> header, hasIndex |-> FALSE, index |-> 0]

InitialColumns ==
    << Column("id", "ID"),
       Column("customerName", "Customer Name"),
       Column("productCode", "Product Code"),
       Column("unitsOrdered", "Units Ordered"),
       Column("unitPrice", "Unit Price"),
       Column("status", "Status") >>

(***************************************************************************)
(* getColumnForField: COLUMNS.reduce without an initial value.  The        *)
(* accumulator starts as COLUMNS[0] (position 1 here) and the callback     *)
(* runs for the positions after it; a match writes column.index = i.       *)
(* Returns the column found and the column table after the writes.         *)
(***************************************************************************)
RECURSIVE ReduceFrom(_, _, _, _)
ReduceFrom(cols, field, i, result) ==
    IF i > Len(cols) THEN [column |-> result, columns |-> cols]
    ELSE IF cols[i].field = field
         THEN LET marked == [cols[i] EXCEPT !.hasIndex = TRUE, !.index = i - 1]
              IN  ReduceFrom([cols EXCEPT ![i] = marked], field, i + 1, marked)
         ELSE ReduceFrom(cols, field, i + 1, result)

getColumnForField(cols, field) == ReduceFrom(cols, field, 2, cols[1])

(***************************************************************************)
(* Request builders.                                                       *)
(***************************************************************************)
(* Mutant: the Pivot sheet keeps its gridlines. *)
buildCreateRequestGridlines(title) ==
    [resource |->
        [properties |-> [title |-> title],
         sheets |->
            << [properties |->
                   [title |-> "Data",
                    gridProperties |-> [columnCount |-> 6, frozenRowCount |-> 1]]],
               [properties |->
                   [title |-> "Pivot",
                    gridProperties |-> [hideGridlines |-> FALSE]]] >>]]

buildCreateRequest(title) ==
    [resource |->
        [properties |-> [title |-> title],
         sheets |->
            << [properties |->
                   [title |-> "Data",
                    gridProperties |-> [columnCount |-> 6, frozenRowCount |-> 1]]],
               [properties |->
                   [title |-> "Pivot",
                    gridProperties |-> [hideGridlines |-> TRUE]]] >>]]

(* Mutant: the cells carry the field names instead of the headers. *)
buildHeaderRowRequestFields(cols, sheetId) ==
    LET cells == [i \in 1..Len(cols) |->
                     [userEnteredValue |-> [stringValue |-> cols[i].field],
                      userEnteredFormat |-> [textFormat |-> [bold |-> TRUE]]]]
    IN  [updateCells |->
            [start |-> [sheetId |-> sheetId, rowIndex |-> 0, columnIndex |-> 0],
             rows |-> << [values |-> cells] >>,
             fields |-> "userEnteredValue,userEnteredFormat.textFormat.bold"]]

buildHeaderRowRequest(cols, sheetId) ==
    LET cells == [i \in 1..Len(cols) |->
                     [userEnteredValue |-> [stringValue |-> cols[i].header],
                      userEnteredFormat |-> [textFormat |-> [bold |-> TRUE]]]]
    IN  [updateCells |->
            [start |-> [sheetId |-> sheetId, rowIndex |-> 0, columnIndex |-> 0],
             rows |-> << [values |-> cells] >>,
             fields |-> "userEnteredValue,userEnteredFormat.textFormat.bold"]]

(* util.format("='%s' * '%s'", a, b) *)
FormatRevenueFormula(a, b) == "='" \o a \o "' * '" \o b \o "'"

(* Mutant: the index counted from one. *)
IndexOfOneBased(column) ==
    IF column.hasIndex THEN Num(column.index + 1) ELSE Undefined

(* The index read from a column object: undefined when the key is absent. *)
IndexOf(column) == IF column.hasIndex THEN Num(column.index) ELSE Undefined

(***************************************************************************)
(* buildPivotTableRequest: four lookups in evaluation order, each one on   *)
(* the column table the previous one left.  Returns the request and the    *)
(* column table after the lookups.                                         *)
(***************************************************************************)
buildPivotTableRequest(cols, sourceSheetId, targetSheetId) ==
    LET endColumnIndex == Len(cols)
        g1 == getColumnForField(cols, "productCode")
        g2 == getColumnForField(g1.columns, "unitsOrdered")
        g3 == getColumnForField(g2.columns, "unitsOrdered")
        g4 == getColumnForField(g3.columns, "unitPrice")
    IN  [request |->
            [updateCells |->
                [start |-> [sheetId |-> targetSheetId, rowIndex |-> 0, columnIndex |-> 0],
                 rows |-> << [values |-> <<
                    [pivotTable |->
                        [source |-> [sheetId |-> sourceSheetId,
                                     startRowIndex |-> 0,
                                     startColumnIndex |-> 0,
                                     endColumnIndex |-> endColumnIndex],
                         rows |-> << [sourceColumnOffset |-> IndexOf(g1.column),
                                      showTotals |-> FALSE,
                                      sortOrder |-> "ASCENDING"] >>,
                         values |-> << [summarizeFunction |-> "SUM",
                                        sourceColumnOffset |-> IndexOf(g2.column)],
                                       [summarizeFunction |-> "SUM",
                                        name |-> "Revenue",
                                        formula |-> FormatRevenueFormula(
                                            g3.column.header, g4.column.header)] >>]]
                    >>] >>,
                 fields |-> "*"]],
         columns |-> g4.columns]

buildFormatPivotTableRequest(sheetId) ==
    [repeatCell |->
        [range |-> [sheetId |-> sheetId, startRowIndex |-> 1, startColumnIndex |-> 2],
         cell |-> [userEnteredFormat |->
                      [numberFormat |-> [type |-> "CURRENCY",
                                         pattern |-> "\"$\"#,##0.00"]]],
         fields |-> "userEnteredFormat.numberFormat"]]

buildAddChartRequest(sheetId) ==
    [addChart |->
        [chart |->
            [spec |->
                [title |-> "Revenue per Product",
                 basicChart |->
                    [chartType |-> "BAR",
                     legendPosition |-> "RIGHT_LEGEND",
                     domains |-> << [sheetId |-> sheetId, startRowIndex |-> 0,
                                     startColumnIndex |-> 0, endColumnIndex |-> 1] >>,
                     series |-> << [sheetId |-> sheetId, startRowIndex |-> 0,
                                    startColumnIndex |-> 2, endColumnIndex |-> 3] >>]],
             position |->
                [overlayPosition |->
                    [anchorCell |-> [sheetId |-> sheetId, rowIndex |-> 0, columnIndex |-> 3],
                     widthPixels |-> 600,
                     heightPixels |-> 400]]]]]

(***************************************************************************)
(* buildRowsForOrders: one row per order, one cell per column, by the      *)
(* switch on column.field.  The default branch calls toString() on the     *)
(* field, which throws when the field is undefined; the three named        *)
(* branches copy the field as it is.                                       *)
(***************************************************************************)
(* Mutant: the validation is not strict. *)
StatusValidationLax ==
    [condition |->
        [type |-> "ONE_OF_LIST",
         values |-> << [userEnteredValue |-> "PENDING"],
                       [userEnteredValue |-> "SHIPPED"],
                       [userEnteredValue |-> "DELIVERED"] >>],
     strict |-> FALSE,
     showCustomUi |-> TRUE]

StatusValidation ==
    [condition |->
        [type |-> "ONE_OF_LIST",
         values |-> << [userEnteredValue |-> "PENDING"],
                       [userEnteredValue |-> "SHIPPED"],
                       [userEnteredValue |-> "DELIVERED"] >>],
     strict |-> TRUE,
     showCustomUi |-> TRUE]

(* Mutant: the currency pattern without the quotes around the dollar sign. *)
buildCellPlainDollar(column, order) ==
    CASE column.field = "unitsOrdered" ->
            [userEnteredValue |-> [numberValue |-> order.unitsOrdered],
             userEnteredFormat |->
                [numberFormat |-> [type |-> "NUMBER", pattern |-> "#,##0"]]]
      [] column.field = "unitPrice" ->
            [userEnteredValue |-> [numberValue |-> order.unitPrice],
             userEnteredFormat |->
                [numberFormat |-> [type |-> "CURRENCY", pattern |-> "$#,##0.00"]]]
      [] column.field = "status" ->
            [userEnteredValue |-> [stringValue |-> order.status],
             dataValidation |-> StatusValidation]
      [] OTHER ->
            [userEnteredValue |-> [stringValue |-> ToString(order[column.field])]]

buildCell(column, order) ==
    CASE column.field = "unitsOrdered" ->
            [userEnteredValue |-> [numberValue |-> order.unitsOrdered],
             userEnteredFormat |->
                [numberFormat |-> [type |-> "NUMBER", pattern |-> "#,##0"]]]
      [] column.field = "unitPrice" ->
            [userEnteredValue |-> [numberValue |-> order.unitPrice],
             userEnteredFormat |->
                [numberFormat |-> [type |-> "CURRENCY", pattern |-> "\"$\"#,##0.00"]]]
      [] column.field = "status" ->
            [userEnteredValue |-> [stringValue |-> order.status],
             dataValidation |-> StatusValidation]
      [] OTHER ->
            [userEnteredValue |-> [stringValue |-> ToString(order[column.field])]]

cellThrows(column, order) ==
    /\ column.field \notin {"unitsOrdered", "unitPrice", "status"}
    /\ Throws(order[column.field])

(* Mutant: the rows come out in reverse order of the orders. *)
buildRowsForOrdersReversed(cols, orders) ==
    [threw |-> \E i \in 1..Len(orders) : \E j \in 1..Len(cols) :
                    cellThrows(cols[j], orders[i]),
     rows |-> [i \in 1..Len(orders) |->
                  [values |-> [j \in 1..Len(cols) |->
                      buildCell(cols[j], orders[Len(orders) + 1 - i])]]]]

buildRowsForOrders(cols, orders) ==
    [threw |-> \E i \in 1..Len(orders) : \E j \in 1..Len(cols) :
                    cellThrows(cols[j], orders[i]),
     rows |-> [i \in 1..Len(orders) |->
                  [values |-> [j \in 1..Len(cols) |-> buildCell(cols[j], orders[i])]]]]

(***************************************************************************)
(* Inputs.                                                                 *)
(***************************************************************************)
Titles == {"", "Orders"}

(* Errors the Sheets service may report to a callback. *)
ServiceErrors == {"E_AUTH", "E_QUOTA"}

Order(id, customerName, productCode, unitsOrdered, unitPrice, status) ==
    [id |-> id, customerName |-> customerName, productCode |-> productCode,
     unitsOrdered |-> unitsOrdered, unitPrice |-> unitPrice, status |-> status]

(* The order of the specification's example; unitPrice 9.5 is 950 cents. *)
ExampleOrder == Order(Num(1), Str("A"), Str("X1"), Num(3), Num(950), Str("PENDING"))

Fields == {"id", "customerName", "productCode", "unitsOrdered", "unitPrice", "status"}

(* Complete orders, an order with a status outside the list, and the
   example order with each one of its fields missing. *)
OrderPool ==
    { ExampleOrder,
      Order(Num(12), Str("Bo"), Str("Y2"), Num(40), Num(1999), Str("SHIPPED")),
      Order(Num(7), Str("C"), Str("X1"), Num(0), Num(5), Str("BOGUS")) }
    \cup { [ExampleOrder EXCEPT ![f] = Undefined] : f \in Fields }

RECURSIVE SeqsUpTo(_, _)
SeqsUpTo(S, n) ==
    IF n = 0 THEN { << >> }
    ELSE LET shorter == SeqsUpTo(S, n - 1)
         IN  shorter \cup { Append(q, x) : q \in { r \in shorter : Len(r) = n - 1 }, x \in S }

OrderLists == SeqsUpTo(OrderPool, MaxOrders)

SpreadsheetIds == {"ss1"}

SheetIds == {0, 7}

(* response.data of a successful create: the spreadsheet with its two sheets. *)
Spreadsheet(spreadsheetId, title, dataSheetId, pivotSheetId) ==
    [spreadsheetId |-> spreadsheetId,
     properties |-> [title |-> title],
     sheets |-> << [properties |-> [sheetId |-> dataSheetId]],
                   [properties |-> [sheetId |-> pivotSheetId]] >>]

NoSpreadsheet == Spreadsheet("", "", 0, 0)

(* The spreadsheets a successful create may answer with: the title asked
   for, and two sheets with distinct ids. *)
CreateResponses(title) ==
    { Spreadsheet(id, title, d, p) :
        id \in SpreadsheetIds, d \in SheetIds, p \in SheetIds } \
    { Spreadsheet(id, title, d, d) : id \in SpreadsheetIds, d \in SheetIds }

NoRequest == [none |-> TRUE]

(***************************************************************************)
(* State.  cs is the createSpreadsheet call in flight (or the last one),   *)
(* sy the sync call.  trace lists what the call did to the Sheets service  *)
(* and to its callback, in order; callbacks lists the callback's           *)
(* invocations with their arguments.  The arguments and local variables    *)
(* of a call (title, orders, requests) live while the call is in flight;   *)
(* trace, callbacks and svcErr stay as the record of the finished call.    *)
(* columnsRead is the column table as the builders of the create callback  *)
(* found it.                                                               *)
(***************************************************************************)
IdleCreate ==
    [pc |-> "idle", title |-> "", trace |-> << >>, callbacks |-> << >>,
     svcErr |-> "null", spreadsheet |-> NoSpreadsheet,
     createRequest |-> NoRequest, batchRequest |-> NoRequest,
     columnsRead |-> << >>]

IdleSync ==
    [pc |-> "idle", spreadsheetId |-> "", sheetId |-> 0, orders |-> << >>,
     trace |-> << >>, callbacks |-> << >>, svcErr |-> "null",
     request |-> NoRequest]

(***************************************************************************)
(* The routes POST /spreadsheets (rc) and POST /spreadsheets/:id/sync (rs): *)
(* the request being served, or the last one.  nexts lists the errors      *)
(* handed to next(), json the bodies sent with res.json(), dbCalls the     *)
(* calls to the models and their outcomes, helperCalls the number of       *)
(* helper operations the request started.  db is the Spreadsheet table,    *)
(* keyed by id.                                                            *)
(***************************************************************************)
AuthorizationRequired == "Authorization required."

NoModel == [id |-> "", sheetId |-> 0, name |-> ""]

IdleCreateRoute ==
    [pc |-> "idle", auth |-> FALSE, nexts |-> << >>, json |-> << >>,
     dbCalls |-> << >>, helperCalls |-> 0, model |-> NoModel]

IdleSyncRoute ==
    [pc |-> "idle", auth |-> FALSE, id |-> "", nexts |-> << >>, json |-> << >>,
     dbCalls |-> << >>, helperCalls |-> 0, orders |-> << >>]

(* The result of the last getColumnForField of LookupSpec. *)
NoLookup == [field |-> "", column |-> Column("", "")]

Init ==
    /\ COLUMNS = InitialColumns
    /\ cs = IdleCreate
    /\ sy = IdleSync
    /\ rc = IdleCreateRoute
    /\ rs = IdleSyncRoute
    /\ db = {}
    /\ lookup = NoLookup

(* callback(err) and callback(null, spreadsheet) / callback() *)
CallbackErr(err) == [err |-> err, hasValue |-> FALSE, value |-> NoSpreadsheet]

CallbackValue(spreadsheet) == [err |-> "null", hasValue |-> TRUE, value |-> spreadsheet]

CallbackNone == [err |-> "null", hasValue |-> FALSE, value |-> NoSpreadsheet]

(***************************************************************************)
(* createSpreadsheet(title, callback): builds the creation request and     *)
(* issues spreadsheets.create.                                             *)
(***************************************************************************)
CreateSpreadsheet(title) ==
    /\ cs.pc \in {"idle", "done"}
    /\ cs' = [IdleCreate EXCEPT !.pc = "create",
                                !.title = title,
                                !.createRequest = buildCreateRequest(title),
                                !.trace = << "create" >>]
    /\ UNCHANGED <<COLUMNS, sy>>

(* Mutant: the error of create is ignored and batchUpdate is issued. *)
CreateFailedContinues(err) ==
    /\ cs.pc = "create"
    /\ cs' = [cs EXCEPT !.pc = "batchUpdate",
                        !.svcErr = err,
                        !.trace = cs.trace \o << "create:err", "batchUpdate" >>]
    /\ UNCHANGED <<COLUMNS, sy>>

(* The create callback with err set: return callback(err). *)
CreateFailed(err) ==
    /\ cs.pc = "create"
    /\ cs' = [IdleCreate EXCEPT
                        !.pc = "done",
                        !.svcErr = err,
                        !.trace = cs.trace \o << "create:err", "callback" >>,
                        !.callbacks = Append(cs.callbacks, CallbackErr(err))]
    /\ UNCHANGED <<COLUMNS, sy>>

(* The create callback without err: the header, pivot, format and chart
   requests are built (the pivot builder's lookups write COLUMNS) and
   spreadsheets.batchUpdate is issued. *)
CreateSucceeded(spreadsheet) ==
    /\ cs.pc = "create"
    /\ LET dataSheetId == spreadsheet.sheets[1].properties.sheetId
           pivotSheetId == spreadsheet.sheets[2].properties.sheetId
           header == buildHeaderRowRequest(COLUMNS, dataSheetId)
           pivot == buildPivotTableRequest(COLUMNS, dataSheetId, pivotSheetId)
           requests == << header, pivot.request,
                          buildFormatPivotTableRequest(pivotSheetId),
                          buildAddChartRequest(pivotSheetId) >>
       IN  /\ COLUMNS' = pivot.columns
           /\ cs' = [cs EXCEPT !.pc = "batchUpdate",
                               !.spreadsheet = spreadsheet,
                               !.columnsRead = COLUMNS,
                               !.batchRequest =
                                   [spreadsheetId |-> spreadsheet.spreadsheetId,
                                    resource |-> [requests |-> requests]],
                               !.trace = cs.trace \o << "create:ok", "batchUpdate" >>]
    /\ UNCHANGED sy

(* Mutant: the error of batchUpdate is dropped and the spreadsheet is
   handed to the callback. *)
CreateBatchFailedIgnored(err) ==
    /\ cs.pc = "batchUpdate"
    /\ cs' = [IdleCreate EXCEPT
                        !.pc = "done",
                        !.svcErr = err,
                        !.trace = cs.trace \o << "batchUpdate:err", "callback" >>,
                        !.callbacks = Append(cs.callbacks, CallbackValue(cs.spreadsheet))]
    /\ UNCHANGED <<COLUMNS, sy>>

CreateBatchFailed(err) ==
    /\ cs.pc = "batchUpdate"
    /\ cs' = [IdleCreate EXCEPT
                        !.pc = "done",
                        !.svcErr = err,
                        !.trace = cs.trace \o << "batchUpdate:err", "callback" >>,
                        !.callbacks = Append(cs.callbacks, CallbackErr(err))]
    /\ UNCHANGED <<COLUMNS, sy>>

CreateBatchSucceeded ==
    /\ cs.pc = "batchUpdate"
    /\ cs' = [IdleCreate EXCEPT
                        !.pc = "done",
                        !.trace = cs.trace \o << "batchUpdate:ok", "callback" >>,
                        !.callbacks = Append(cs.callbacks, CallbackValue(cs.spreadsheet))]
    /\ UNCHANGED <<COLUMNS, sy>>

(***************************************************************************)
(* sync(spreadsheetId, sheetId, orders, callback): builds the resize and   *)
(* the row-write sub-requests and issues spreadsheets.batchUpdate.  When   *)
(* buildRowsForOrders throws, the exception leaves sync before any call    *)
(* to the service and before any use of the callback.                      *)
(***************************************************************************)
(* Mutant: the grid is sized to the orders alone, without the header row. *)
buildSyncRequestsNoHeaderRow(cols, sheetId, orders) ==
    << [updateSheetProperties |->
           [properties |->
               [sheetId |-> sheetId,
                gridProperties |-> [rowCount |-> Len(orders),
                                    columnCount |-> Len(cols)]],
            fields |-> "gridProperties(rowCount,columnCount)"]],
       [updateCells |->
           [start |-> [sheetId |-> sheetId, rowIndex |-> 1, columnIndex |-> 0],
            rows |-> buildRowsForOrders(cols, orders).rows,
            fields |-> "*"]] >>

buildSyncRequests(cols, sheetId, orders) ==
    << [updateSheetProperties |->
           [properties |->
               [sheetId |-> sheetId,
                gridProperties |-> [rowCount |-> Len(orders) + 1,
                                    columnCount |-> Len(cols)]],
            fields |-> "gridProperties(rowCount,columnCount)"]],
       [updateCells |->
           [start |-> [sheetId |-> sheetId, rowIndex |-> 1, columnIndex |-> 0],
            rows |-> buildRowsForOrders(cols, orders).rows,
            fields |-> "*"]] >>

Sync(spreadsheetId, sheetId, orders) ==
    /\ sy.pc \in {"idle", "done", "threw"}
    /\ LET call == [IdleSync EXCEPT !.spreadsheetId = spreadsheetId,
                                    !.sheetId = sheetId,
                                    !.orders = orders]
       IN  IF buildRowsForOrders(COLUMNS, orders).threw
           THEN sy' = [IdleSync EXCEPT !.pc = "threw"]
           ELSE sy' = [call EXCEPT
                          !.pc = "batchUpdate",
                          !.request =
                              [spreadsheetId |-> spreadsheetId,
                               resource |-> [requests |->
                                   buildSyncRequests(COLUMNS, sheetId, orders)]],
                          !.trace = << "batchUpdate" >>]
    /\ UNCHANGED <<COLUMNS, cs>>

SyncFailed(err) ==
    /\ sy.pc = "batchUpdate"
    /\ sy' = [IdleSync EXCEPT
                        !.pc = "done",
                        !.svcErr = err,
                        !.trace = sy.trace \o << "batchUpdate:err", "callback" >>,
                        !.callbacks = Append(sy.callbacks, CallbackErr(err))]
    /\ UNCHANGED <<COLUMNS, cs>>

SyncSucceeded ==
    /\ sy.pc = "batchUpdate"
    /\ sy' = [IdleSync EXCEPT
                        !.pc = "done",
                        !.trace = sy.trace \o << "batchUpdate:ok", "callback" >>,
                        !.callbacks = Append(sy.callbacks, CallbackNone)]
    /\ UNCHANGED <<COLUMNS, cs>>

(***************************************************************************)
(* POST /spreadsheets.  Without an Authorization header the handler ends   *)
(* with next(Error('Authorization required.')); otherwise it calls         *)
(* helper.createSpreadsheet with a title made of the time of day.          *)
(***************************************************************************)
Last(q) == q[Len(q)]

(* new Date().toLocaleTimeString() *)
TimesOfDay == {"9:00:00 AM", "5:30:00 PM"}

RouteTitle(time) == "Orders (" \o time \o ")"

PostSpreadsheets(auth, time) ==
    /\ rc.pc \in {"idle", "done", "rejected"}
    /\ IF ~auth
       THEN /\ rc' = [IdleCreateRoute EXCEPT !.pc = "done",
                                             !.nexts = << AuthorizationRequired >>]
            /\ UNCHANGED <<COLUMNS, cs, sy>>
       ELSE /\ CreateSpreadsheet(RouteTitle(time))
            /\ rc' = [IdleCreateRoute EXCEPT !.pc = "helper",
                                             !.auth = TRUE,
                                             !.helperCalls = 1]
    /\ UNCHANGED <<rs, db, lookup>>

(* Mutant: the error is not looked at, the model is stored in any case. *)
PostSpreadsheetsCallbackAlwaysStores(cb) ==
    rc' = [rc EXCEPT
              !.pc = "dbCreate",
              !.model = [id |-> cb.value.spreadsheetId,
                         sheetId |-> cb.value.sheets[1].properties.sheetId,
                         name |-> cb.value.properties.title],
              !.dbCalls = Append(rc.dbCalls, "Spreadsheet.create")]

(* The callback handed to createSpreadsheet: next(err), or the model is
   built from the spreadsheet and models.Spreadsheet.create(model) starts. *)
PostSpreadsheetsCallback(cb) ==
    IF cb.err # "null"
    THEN rc' = [rc EXCEPT !.pc = "done", !.nexts = Append(rc.nexts, cb.err)]
    ELSE rc' = [rc EXCEPT
                   !.pc = "dbCreate",
                   !.model = [id |-> cb.value.spreadsheetId,
                              sheetId |-> cb.value.sheets[1].properties.sheetId,
                              name |-> cb.value.properties.title],
                   !.dbCalls = Append(rc.dbCalls, "Spreadsheet.create")]

(* A callback of the Sheets service runs for the route's createSpreadsheet;
   when it invokes the helper's callback, the route's callback runs in it. *)
PostSpreadsheetsService ==
    /\ rc.pc = "helper"
    /\ \/ \E err \in ServiceErrors : CreateFailed(err)
       \/ \E spreadsheet \in CreateResponses(cs.title) : CreateSucceeded(spreadsheet)
       \/ \E err \in ServiceErrors : CreateBatchFailed(err)
       \/ CreateBatchSucceeded
    /\ IF Len(cs'.callbacks) > Len(cs.callbacks)
       THEN PostSpreadsheetsCallback(Last(cs'.callbacks))
       ELSE UNCHANGED rc
    /\ UNCHANGED <<rs, db, lookup>>

(* models.Spreadsheet.create(model) resolves: the record is stored and
   res.json(model) sent.  id is the primary key of the table. *)
SpreadsheetStored ==
    /\ rc.pc = "dbCreate"
    /\ \A r \in db : r.id # rc.model.id
    /\ db' = db \cup {rc.model}
    /\ rc' = [rc EXCEPT !.pc = "done",
                        !.json = Append(rc.json, rc.model),
                        !.dbCalls = Append(rc.dbCalls, "Spreadsheet.create:ok")]
    /\ UNCHANGED <<COLUMNS, cs, sy, rs, lookup>>

(* models.Spreadsheet.create(model) rejects: the promise has no rejection
   handler, the request is never answered. *)
SpreadsheetRejected ==
    /\ rc.pc = "dbCreate"
    /\ rc' = [rc EXCEPT !.pc = "rejected",
                        !.dbCalls = Append(rc.dbCalls, "Spreadsheet.create:err")]
    /\ UNCHANGED <<COLUMNS, cs, sy, rs, db, lookup>>

(***************************************************************************)
(* POST /spreadsheets/:id/sync.  Without an Authorization header the       *)
(* handler ends with next(Error('Authorization required.')); otherwise it  *)
(* starts the two lookups of Sequelize.Promise.all.                        *)
(***************************************************************************)
RouteIds == SpreadsheetIds \cup {"unknown"}

(* Mutant: the Authorization header is not looked at. *)
PostSyncUnchecked(auth, id) ==
    /\ rs.pc \in {"idle", "done", "rejected"}
    /\ rs' = [IdleSyncRoute EXCEPT
                  !.pc = "db",
                  !.auth = auth,
                  !.id = id,
                  !.dbCalls = << "Spreadsheet.findByPk", "Order.findAll" >>]
    /\ UNCHANGED <<COLUMNS, cs, sy, rc, db, lookup>>

PostSync(auth, id) ==
    /\ rs.pc \in {"idle", "done", "rejected"}
    /\ IF ~auth
       THEN rs' = [IdleSyncRoute EXCEPT !.pc = "done",
                                        !.id = id,
                                        !.nexts = << AuthorizationRequired >>]
       ELSE rs' = [IdleSyncRoute EXCEPT
                      !.pc = "db",
                      !.auth = TRUE,
                      !.id = id,
                      !.dbCalls = << "Spreadsheet.findByPk", "Order.findAll" >>]
    /\ UNCHANGED <<COLUMNS, cs, sy, rc, db, lookup>>

(* One of the lookups rejects: the promise chain has no rejection handler,
   the request is never answered. *)
SyncLookupsRejected ==
    /\ rs.pc = "db"
    /\ rs' = [rs EXCEPT !.pc = "rejected",
                        !.dbCalls = Append(rs.dbCalls, "rejected")]
    /\ UNCHANGED <<COLUMNS, cs, sy, rc, db, lookup>>

(* Both lookups resolve and the then-callback runs.  findByPk gives null
   for an id the table does not hold, and spreadsheet.id then throws; a
   throw of helper.sync leaves the callback the same way: the promise is
   rejected with no handler.  Otherwise the sync call is pending. *)
SyncLookupsResolved(orders) ==
    /\ rs.pc = "db"
    /\ LET found == { r \in db : r.id = rs.id }
           resolved == [rs EXCEPT !.dbCalls = Append(rs.dbCalls, "resolved")]
       IN  IF found = {}
           THEN /\ rs' = [resolved EXCEPT !.pc = "rejected"]
                /\ UNCHANGED <<COLUMNS, cs, sy>>
           ELSE \E spreadsheet \in found :
                   /\ Sync(spreadsheet.id, spreadsheet.sheetId, orders)
                   /\ rs' = IF sy'.pc = "threw"
                            THEN [resolved EXCEPT !.pc = "rejected",
                                                  !.helperCalls = 1]
                            ELSE [resolved EXCEPT !.pc = "helper",
                                                  !.helperCalls = 1,
                                                  !.orders = orders]
    /\ UNCHANGED <<rc, db, lookup>>

(* The callback handed to sync: next(err) or res.json(orders.length). *)
PostSyncCallback(cb) ==
    IF cb.err # "null"
    THEN rs' = [rs EXCEPT !.pc = "done", !.orders = << >>,
                          !.nexts = Append(rs.nexts, cb.err)]
    ELSE rs' = [rs EXCEPT !.pc = "done", !.orders = << >>,
                          !.json = Append(rs.json, Len(rs.orders))]

PostSyncService ==
    /\ rs.pc = "helper"
    /\ \/ \E err \in ServiceErrors : SyncFailed(err)
       \/ SyncSucceeded
    /\ PostSyncCallback(Last(sy'.callbacks))
    /\ UNCHANGED <<rc, db, lookup>>

RouteNext ==
    \/ \E auth \in BOOLEAN, time \in TimesOfDay : PostSpreadsheets(auth, time)
    \/ PostSpreadsheetsService
    \/ SpreadsheetStored
    \/ SpreadsheetRejected
    \/ \E auth \in BOOLEAN, id \in RouteIds : PostSync(auth, id)
    \/ SyncLookupsRejected
    \/ \E orders \in OrderLists : SyncLookupsResolved(orders)
    \/ PostSyncService

RouteSpec == Init /\ [][RouteNext]_vars

(***************************************************************************)
(* getColumnForField applied to a field name: the column it returns, and   *)
(* the column table it leaves.                                             *)
(***************************************************************************)
LookupFields == Fields \cup {"createdAt"}

Lookup(field) ==
    /\ LET got == getColumnForField(COLUMNS, field)
       IN  /\ lookup' = [field |-> field, column |-> got.column]
           /\ COLUMNS' = got.columns
    /\ UNCHANGED <<cs, sy, rc, rs, db>>

LookupNext == \E field \in LookupFields : Lookup(field)

LookupSpec == Init /\ [][LookupNext]_vars

(* The helper called directly: the routes and the lookup stay as they are. *)
Next ==
    \/ /\ \E title \in Titles : CreateSpreadsheet(title)
       /\ UNCHANGED <<routeVars, lookup>>
    \/ /\ \E err \in ServiceErrors : CreateFailed(err)
       /\ UNCHANGED <<routeVars, lookup>>
    \/ /\ \E spreadsheet \in CreateResponses(cs.title) : CreateSucceeded(spreadsheet)
       /\ UNCHANGED <<routeVars, lookup>>
    \/ /\ \E err \in ServiceErrors : CreateBatchFailed(err)
       /\ UNCHANGED <<routeVars, lookup>>
    \/ /\ CreateBatchSucceeded
       /\ UNCHANGED <<routeVars, lookup>>
    \/ /\ \E id \in SpreadsheetIds, sheetId \in SheetIds, orders \in OrderLists :
             Sync(id, sheetId, orders)
       /\ UNCHANGED <<routeVars, lookup>>
    \/ /\ \E err \in ServiceErrors : SyncFailed(err)
       /\ UNCHANGED <<routeVars, lookup>>
    \/ /\ SyncSucceeded
       /\ UNCHANGED <<routeVars, lookup>>

Spec == Init /\ [][Next]_vars

(***************************************************************************)
(* Properties.                                                             *)
(***************************************************************************)
InFlight(call) == call.pc \in {"create", "batchUpdate"}

Lacks(order, f) == order[f].t = "undef"

SyncRequests == sy.request.resource.requests

SyncRows == SyncRequests[2].updateCells.rows

Count(trace, ev) == Cardinality({ k \in 1..Len(trace) : trace[k] = ev })

(* C1: every order that lacks one of the six column fields makes the build
   of the sync request fail; so a sync request that was built and sent has
   no order lacking a field. *)
C1_MissingFieldFails ==
    sy.pc = "batchUpdate" =>
        \A i \in 1..Len(sy.orders) : \A f \in Fields : ~Lacks(sy.orders[i], f)

(* C2: createSpreadsheet with an empty title issues no call to the Sheets
   service, neither create nor batchUpdate. *)
C2_EmptyTitleNoCall ==
    (InFlight(cs) /\ cs.title = "") =>
        (Count(cs.trace, "create") = 0 /\ Count(cs.trace, "batchUpdate") = 0)

(* C3: the shared column specification COLUMNS always equals its initial
   value, whatever operations ran. *)
C3_ColumnsUnchanged == COLUMNS = InitialColumns

(* What C4 says of one call once it is over: one callback invocation; after
   a service error that invocation carries the same error and no value,
   and the error is the last thing the service was asked. *)
ErrorPropagated(call) ==
    call.svcErr # "null" =>
        /\ call.callbacks = << [err |-> call.svcErr, hasValue |-> FALSE,
                                value |-> NoSpreadsheet] >>
        /\ Len(call.trace) >= 2
        /\ call.trace[Len(call.trace)] = "callback"
        /\ call.trace[Len(call.trace) - 1] \in {"create:err", "batchUpdate:err"}
        /\ Count(call.trace, "create:err") + Count(call.trace, "batchUpdate:err") = 1

(* C4 as stated: createSpreadsheet and sync invoke their callback exactly
   once per call (every call that is over has one invocation), and a service
   error reaches the callback unchanged, without retry and without value. *)
C4_CallbackOncePerCall ==
    /\ cs.pc = "done" => Len(cs.callbacks) = 1
    /\ sy.pc \in {"done", "threw"} => Len(sy.callbacks) = 1
    /\ ErrorPropagated(cs)
    /\ ErrorPropagated(sy)

(* C4 amended: the callback is invoked exactly once per call that reached
   the Sheets service, never while a service call is pending, and not at all
   by a sync that threw while building its rows; a service error reaches
   the callback unchanged, without retry and without value. *)
C4_CallbackOncePerServedCall ==
    /\ cs.pc = "done" => Len(cs.callbacks) = 1
    /\ sy.pc = "done" => Len(sy.callbacks) = 1
    /\ InFlight(cs) => cs.callbacks = << >>
    /\ InFlight(sy) => sy.callbacks = << >>
    /\ sy.pc = "threw" => (sy.callbacks = << >> /\ sy.trace = << >>)
    /\ ErrorPropagated(cs)
    /\ ErrorPropagated(sy)

C4_Witness ==
    /\ cs.pc = "done" /\ cs.svcErr = "E_QUOTA"
    /\ cs.trace = << "create", "create:ok", "batchUpdate", "batchUpdate:err", "callback" >>
    /\ sy.pc = "done" /\ sy.svcErr = "E_AUTH"

(* createSpreadsheet's calls in order: create first, batchUpdate only right
   after create returned success, at most one of each. *)
CreateThenBatch(trace) ==
    /\ Count(trace, "create") <= 1
    /\ Count(trace, "batchUpdate") <= 1
    /\ trace # << >> => trace[1] = "create"
    /\ \A k \in 1..Len(trace) :
          trace[k] = "batchUpdate" => (k = 3 /\ trace[2] = "create:ok")
    /\ Count(trace, "create:err") > 0 => Count(trace, "batchUpdate") = 0

(* C5 as stated: at most two service calls per operation, in sequence; and
   sync (every sync call) issues exactly one batchUpdate and no create. *)
C5_SequentialCalls ==
    /\ CreateThenBatch(cs.trace)
    /\ sy.pc # "idle" =>
          (Count(sy.trace, "batchUpdate") = 1 /\ Count(sy.trace, "create") = 0)

(* C5 amended: createSpreadsheet issues create first and batchUpdate only
   after create returned success; a sync whose rows were built issues
   exactly one batchUpdate, first of all, and no create; a sync that threw
   while building its rows issues no call at all. *)
C5_SequentialCallsWhenBuilt ==
    /\ CreateThenBatch(cs.trace)
    /\ sy.pc \in {"batchUpdate", "done"} =>
          /\ Count(sy.trace, "batchUpdate") = 1
          /\ Count(sy.trace, "create") = 0
          /\ sy.trace[1] = "batchUpdate"
    /\ sy.pc = "threw" => sy.trace = << >>

C5_Witness ==
    /\ cs.pc = "done"
    /\ cs.trace = << "create", "create:ok", "batchUpdate", "batchUpdate:ok", "callback" >>
    /\ sy.pc = "threw"

(* The textual representation of the values the orders carry, written out
   value by value. *)
Text(v) ==
    CASE v = Num(1) -> Str("1")
      [] v = Num(7) -> Str("7")
      [] v = Num(12) -> Str("12")
      [] v.t = "str" -> v

HasKeys(cell, keys) == DOMAIN cell = keys

(* C6: the row-update sub-request of a sync request has exactly
   orders.length rows, row i built from order i, and every row has exactly
   6 cells in column-specification order: three plain string cells (id,
   customerName, productCode), the number cell of unitsOrdered, the
   currency cell of unitPrice, the validated cell of status. *)
C6_RowsAndCells ==
    sy.pc = "batchUpdate" =>
        /\ Len(SyncRows) = Len(sy.orders)
        /\ \A i \in 1..Len(sy.orders) :
              LET cells == SyncRows[i].values
                  order == sy.orders[i]
              IN  /\ Len(cells) = 6
                  /\ HasKeys(cells[1], {"userEnteredValue"})
                  /\ cells[1].userEnteredValue.stringValue = Text(order.id)
                  /\ HasKeys(cells[2], {"userEnteredValue"})
                  /\ cells[2].userEnteredValue.stringValue = Text(order.customerName)
                  /\ HasKeys(cells[3], {"userEnteredValue"})
                  /\ cells[3].userEnteredValue.stringValue = Text(order.productCode)
                  /\ HasKeys(cells[4], {"userEnteredValue", "userEnteredFormat"})
                  /\ cells[4].userEnteredFormat.numberFormat.type = "NUMBER"
                  /\ cells[4].userEnteredValue.numberValue = order.unitsOrdered
                  /\ HasKeys(cells[5], {"userEnteredValue", "userEnteredFormat"})
                  /\ cells[5].userEnteredFormat.numberFormat.type = "CURRENCY"
                  /\ cells[5].userEnteredValue.numberValue = order.unitPrice
                  /\ HasKeys(cells[6], {"userEnteredValue", "dataValidation"})
                  /\ cells[6].userEnteredValue.stringValue = order.status

C6_Witness ==
    /\ sy.pc = "batchUpdate"
    /\ Len(sy.orders) = 2
    /\ sy.orders[1].id = Num(12)
    /\ sy.orders[2].id = Num(1)
    /\ Len(SyncRows) = 2
    /\ SyncRows[1].values[1].userEnteredValue.stringValue = Str("12")

(* C7: the first sub-request of a sync request resizes the grid to
   orders.length + 1 rows and 6 columns, for every list of orders (the empty
   one too); the row write is the second and last one and starts at row 1,
   column 0 of the same sheet. *)
C7_ResizeFirst ==
    sy.pc = "batchUpdate" =>
        /\ Len(SyncRequests) = 2
        /\ DOMAIN SyncRequests[1] = {"updateSheetProperties"}
        /\ LET properties == SyncRequests[1].updateSheetProperties.properties
           IN  /\ properties.sheetId = sy.sheetId
               /\ properties.gridProperties.rowCount = Len(sy.orders) + 1
               /\ properties.gridProperties.columnCount = 6
        /\ DOMAIN SyncRequests[2] = {"updateCells"}
        /\ SyncRequests[2].updateCells.start =
              [sheetId |-> sy.sheetId, rowIndex |-> 1, columnIndex |-> 0]

C7_Witness ==
    /\ sy.pc = "batchUpdate"
    /\ sy.orders = << >>
    /\ SyncRequests[1].updateSheetProperties.properties.gridProperties.rowCount = 1

(* C8: in every row of a sync request the status cell carries a strict
   one-of-list validation whose values are exactly PENDING, SHIPPED,
   DELIVERED, whatever the order's status is. *)
C8_StatusValidation ==
    sy.pc = "batchUpdate" =>
        \A i \in 1..Len(SyncRows) :
            LET validation == SyncRows[i].values[6].dataValidation
                values == validation.condition.values
            IN  /\ validation.strict = TRUE
                /\ validation.condition.type = "ONE_OF_LIST"
                /\ { values[k].userEnteredValue : k \in 1..Len(values) } =
                      {"PENDING", "SHIPPED", "DELIVERED"}

(* A row was built for an order whose status is outside the list, and one
   for an order without status. *)
C8_Witness ==
    /\ sy.pc = "batchUpdate"
    /\ Len(sy.orders) = 2
    /\ sy.orders[1].status = Str("BOGUS")
    /\ sy.orders[2].status = Undefined
    /\ SyncRows[1].values[6].userEnteredValue.stringValue = Str("BOGUS")

UnitsOrderedPattern(row) == row.values[4].userEnteredFormat.numberFormat.pattern

UnitPricePattern(row) == row.values[5].userEnteredFormat.numberFormat.pattern

C10_CellValues ==
    sy.pc = "batchUpdate" =>
        \A i \in 1..Len(sy.orders) :
            LET value == [j \in 1..6 |-> SyncRows[i].values[j].userEnteredValue]
                order == sy.orders[i]
            IN  /\ value[1] = [stringValue |-> Text(order.id)]
                /\ value[1].stringValue.t = "str"
                /\ value[2] = [stringValue |-> Text(order.customerName)]
                /\ value[3] = [stringValue |-> Text(order.productCode)]
                /\ value[4] = [numberValue |-> order.unitsOrdered]
                /\ value[5] = [numberValue |-> order.unitPrice]
                /\ value[6] = [stringValue |-> order.status]

(* The example: {1, "A", "X1", 3, 9.5, "PENDING"} yields
   "1", "A", "X1", 3, 9.5, "PENDING". *)
C10_Witness ==
    /\ sy.pc = "batchUpdate"
    /\ sy.orders = << ExampleOrder >>
    /\ [j \in 1..6 |-> SyncRows[1].values[j].userEnteredValue] =
          << [stringValue |-> Str("1")], [stringValue |-> Str("A")],
             [stringValue |-> Str("X1")], [numberValue |-> Num(3)],
             [numberValue |-> Num(950)], [stringValue |-> Str("PENDING")] >>

HeaderCell(header) ==
    [userEnteredValue |-> [stringValue |-> header],
     userEnteredFormat |-> [textFormat |-> [bold |-> TRUE]]]

CreateRequests == cs.batchRequest.resource.requests

DataSheetId == cs.spreadsheet.sheets[1].properties.sheetId

PivotSheetId == cs.spreadsheet.sheets[2].properties.sheetId

(* C11: the header request of every createSpreadsheet writes one row at
   row 0, column 0 of the data sheet, whose six bold string cells are ID,
   Customer Name, Product Code, Units Ordered, Unit Price, Status in this
   order, whatever ran before (pivot lookups of earlier calls included). *)
C11_HeaderRow ==
    cs.pc = "batchUpdate" =>
        LET header == CreateRequests[1]
        IN  /\ DOMAIN header = {"updateCells"}
            /\ header.updateCells.start =
                  [sheetId |-> DataSheetId, rowIndex |-> 0, columnIndex |-> 0]
            /\ header.updateCells.rows =
                  << [values |-> << HeaderCell("ID"),
                                    HeaderCell("Customer Name"),
                                    HeaderCell("Product Code"),
                                    HeaderCell("Units Ordered"),
                                    HeaderCell("Unit Price"),
                                    HeaderCell("Status") >>] >>

(* The header row was built from a column table that earlier pivot lookups
   had already written to. *)
C11_Witness ==
    /\ cs.pc = "batchUpdate"
    /\ cs.columnsRead # InitialColumns
    /\ cs.columnsRead[3].hasIndex
    /\ Len(CreateRequests[1].updateCells.rows[1].values) = 6
    /\ CreateRequests[1].updateCells.rows[1].values[3] = HeaderCell("Product Code")

(* C12: the creation request is determined by the title alone: a Data sheet
   with 6 columns and 1 frozen row and a Pivot sheet with gridlines hidden,
   in every state the request is built in; so two builds with the same
   title give the same request, whatever was built in between. *)
C12_CreateRequest ==
    InFlight(cs) =>
        cs.createRequest =
            [resource |->
                [properties |-> [title |-> cs.title],
                 sheets |->
                    << [properties |->
                           [title |-> "Data",
                            gridProperties |->
                                [columnCount |-> 6, frozenRowCount |-> 1]]],
                       [properties |->
                           [title |-> "Pivot",
                            gridProperties |-> [hideGridlines |-> TRUE]]] >>]]

(* A creation request built after an earlier createSpreadsheet ran its
   builders and after a sync. *)
C12_Witness ==
    /\ cs.pc = "create"
    /\ cs.title = "Orders"
    /\ COLUMNS # InitialColumns
    /\ sy.pc = "done"
    /\ cs.createRequest.resource.sheets[1].properties.gridProperties.columnCount = 6

(* C13: the pivot request groups by source column offset 2 (productCode),
   ascending, sums source column offset 3 (unitsOrdered), adds the summed
   value Revenue with the formula ='Units Ordered' * 'Unit Price', reads
   all 6 columns of the data sheet and is written at cell (0,0) of the
   pivot sheet. *)
C13_PivotTable ==
    cs.pc = "batchUpdate" =>
        LET update == CreateRequests[2].updateCells
            pivotTable == update.rows[1].values[1].pivotTable
        IN  /\ update.start =
                  [sheetId |-> PivotSheetId, rowIndex |-> 0, columnIndex |-> 0]
            /\ Len(update.rows) = 1
            /\ Len(update.rows[1].values) = 1
            /\ pivotTable.source =
                  [sheetId |-> DataSheetId, startRowIndex |-> 0,
                   startColumnIndex |-> 0, endColumnIndex |-> 6]
            /\ Len(pivotTable.rows) = 1
            /\ pivotTable.rows[1].sourceColumnOffset = Num(2)
            /\ pivotTable.rows[1].sortOrder = "ASCENDING"
            /\ Len(pivotTable.values) = 2
            /\ pivotTable.values[1] =
                  [summarizeFunction |-> "SUM", sourceColumnOffset |-> Num(3)]
            /\ pivotTable.values[2] =
                  [summarizeFunction |-> "SUM", name |-> "Revenue",
                   formula |-> "='Units Ordered' * 'Unit Price'"]

(* The pivot request of the first createSpreadsheet: no column had an index
   before its lookups. *)
C13_Witness ==
    /\ cs.pc = "batchUpdate"
    /\ cs.columnsRead = InitialColumns
    /\ CreateRequests[2].updateCells.rows[1].values[1].pivotTable.rows[1]
          .sourceColumnOffset = Num(2)

PositionOf(field) ==
    CASE field = "id" -> 0
      [] field = "customerName" -> 1
      [] field = "productCode" -> 2
      [] field = "unitsOrdered" -> 3
      [] field = "unitPrice" -> 4
      [] field = "status" -> 5

(* C14: for every field name of the column specification getColumnForField
   returns that field's column, with the key index set to the column's
   position in COLUMNS. *)
C14_LookupIndex ==
    lookup.field \in Fields =>
        /\ lookup.column.field = lookup.field
        /\ lookup.column.hasIndex
        /\ lookup.column.index = PositionOf(lookup.field)

(* C15: a sync request with an Authorization header that has nothing left
   to run has called exactly one of res.json(orders.length) and next(err). *)
C15_SyncAnswered ==
    (rs.auth /\ rs.pc \in {"done", "rejected"}) =>
        Len(rs.json) + Len(rs.nexts) = 1

SuccessTrace ==
    << "create", "create:ok", "batchUpdate", "batchUpdate:ok", "callback" >>

(* C16: in POST /spreadsheets the record is stored and the JSON response
   sent only after createSpreadsheet reported success (create and
   batchUpdate both succeeded); when createSpreadsheet reports an error,
   next(err) is called exactly once with it, nothing is stored and no JSON
   is sent. *)
C16_StoreOnlyAfterSuccess ==
    /\ (rc.pc = "dbCreate" \/ rc.json # << >> \/ rc.dbCalls # << >>) =>
          /\ rc.helperCalls = 1
          /\ cs.pc = "done"
          /\ cs.trace = SuccessTrace
          /\ cs.svcErr = "null"
          /\ Len(cs.callbacks) = 1
          /\ cs.callbacks[1].err = "null"
          /\ cs.callbacks[1].hasValue
          /\ rc.nexts = << >>
    /\ rc.json # << >> =>
          /\ Len(rc.json) = 1
          /\ rc.json[1] \in db
          /\ rc.json[1].id = cs.callbacks[1].value.spreadsheetId
    /\ (rc.helperCalls = 1 /\ cs.svcErr # "null") =>
          /\ rc.pc = "done"
          /\ rc.nexts = << cs.svcErr >>
          /\ rc.json = << >>
          /\ rc.dbCalls = << >>

(* createSpreadsheet reported the error of batchUpdate to the route, with a
   record of an earlier request in the table. *)
C16_Witness ==
    /\ rc.pc = "done"
    /\ rc.helperCalls = 1
    /\ cs.svcErr = "E_QUOTA"
    /\ Count(cs.trace, "batchUpdate:err") = 1
    /\ rc.nexts = << "E_QUOTA" >>
    /\ db # {}

(* What C17 says of one route: the step that ends a request without an
   Authorization header calls next with the error 'Authorization
   required.', sends no body, calls no model, starts no helper operation
   and leaves the helper, the Sheets calls and the table as they are. *)
UnauthorizedStep(before, after) ==
    (after # before /\ after.pc = "done" /\ ~after.auth) =>
        /\ after.nexts = << AuthorizationRequired >>
        /\ after.json = << >>
        /\ after.dbCalls = << >>
        /\ after.helperCalls = 0
        /\ UNCHANGED <<COLUMNS, cs, sy, db>>

(* C17: in both spreadsheet routes a request without an Authorization
   header ends with next(Error('Authorization required.')) and causes no
   Sheets service call, no database read or write and no response body. *)
C17_Unauthorized ==
    [][UnauthorizedStep(rc, rc') /\ UnauthorizedStep(rs, rs')]_vars

(* Both routes turned a request without the header down, while the table
   held a record and a create was recorded. *)
C17_Witness ==
    /\ rc.pc = "done" /\ ~rc.auth /\ rc.nexts = << AuthorizationRequired >>
    /\ rs.pc = "done" /\ ~rs.auth /\ rs.nexts = << AuthorizationRequired >>
    /\ db # {}
    /\ cs.trace = SuccessTrace

====
